---------------------------- MODULE Spec2Model ----------------------------
(***************************************************************************)
(* Model of detect.py: the command runner main() as a state machine.       *)
(* One action per block of main(), in program order; pc is the position of *)
(* the single thread.  The external library (the import, YOLO(), model.to, *)
(* model.predict, the result objects) is the environment: each of its      *)
(* calls returns or raises nondeterministically.                           *)
(***************************************************************************)
EXTENDS Integers, Sequences, FiniteSets, TLC

VARIABLES
    args,                   \* the Namespace returned by parse_args()
    modelExists,            \* Path(args.model).exists()
    pc,                     \* position in main()
    src,                    \* the normalized source
    imported,               \* "from ultralytics import YOLO" succeeded
    model,                  \* the model object: loaded, the .to() calls made
    predict_kwargs,         \* the keyword bundle built at lines 60-74
    predict_kwargs_stream,  \* its streaming copy (lines 84-92)
    calls,                  \* the calls of model.predict made so far
    results,                \* the variable results
    i,                      \* number of items pulled from results_gen
    printed_count,          \* the variable printed_count
    cur,                    \* the item r of the current loop iteration
    frameOut,               \* lines printed by the current loop iteration
    headers,                \* number of "--- frame i ---" lines printed
    msgs,                   \* the other messages printed, in order
    finishedN,              \* N of "Finished streaming inference ... N."
    summary,                \* what the summary block printed
    exitCode                \* the process exit status, -1 while running

vars == <<args, modelExists, pc, src, imported, model, predict_kwargs,
          predict_kwargs_stream, calls, results, i, printed_count, cur,
          frameOut, headers, msgs, finishedN, summary, exitCode>>

-----------------------------------------------------------------------------
(* Bounds of the model *)

MaxSrcLen == 3
MaxFrames == 2
MaxResults == 2
MaxDet == 2

(* argparse defaults *)
DefaultImgsz == 640
DefaultConfPct == 25

-----------------------------------------------------------------------------
(* Optional values: <<>> is None, <<v>> is the value v *)

None == <<>>
Some(v) == <<v>>

\* Python truthiness of an optional string: None and "" are falsy
Truthy(o) == o # None /\ o[1] # ""

-----------------------------------------------------------------------------
(* Source normalization, lines 40-45 *)

AsciiDigits == {"0", "1", "9"}
\* "ar2" is U+0662 ARABIC-INDIC DIGIT TWO (category Nd, value 2);
\* "sup2" is U+00B2 SUPERSCRIPT TWO (numeric, but no decimal digit)
DecimalChars == AsciiDigits \cup {"ar2"}
NumericChars == DecimalChars \cup {"sup2"}
Chars == NumericChars \cup {"a", "/"}

DigitVal(c) ==
    CASE c = "0" -> 0
      [] c = "1" -> 1
      [] c = "9" -> 9
      [] c = "ar2" -> 2

RECURSIVE SeqsUpTo(_, _)
SeqsUpTo(S, n) ==
    IF n = 0 THEN {<<>>}
    ELSE LET shorter == SeqsUpTo(S, n - 1)
         IN  shorter \cup {Append(s, c) : s \in shorter, c \in S}

\* str.isnumeric(): non-empty and every character numeric
IsNumeric(s) == Len(s) > 0 /\ \A k \in 1..Len(s) : s[k] \in NumericChars

\* int(s) of a string that passed isnumeric(): raises ValueError unless
\* every character is a decimal digit
IntParses(s) == \A k \in 1..Len(s) : s[k] \in DecimalChars

RECURSIVE IntValue(_)
IntValue(s) ==
    IF s = <<>> THEN 0
    ELSE IntValue(SubSeq(s, 1, Len(s) - 1)) * 10 + DigitVal(s[Len(s)])

IntSource(n) == [kind |-> "int", ival |-> n, sval |-> <<>>]
StrSource(s) == [kind |-> "str", ival |-> 0, sval |-> s]

NormalizeKeepsString(s) == StrSource(s)

Normalize(s) ==
    IF IsNumeric(s) /\ IntParses(s) THEN IntSource(IntValue(s))
    ELSE StrSource(s)

-----------------------------------------------------------------------------
(* Result objects of the external library *)

\* an element of a class-id / confidence / coordinate collection:
\* a number (class ids in tenths, confidences in ten-thousandths),
\* a coordinate row, or a value the numeric conversion rejects
Num(v) == [t |-> "num", v |-> v]
Row == [t |-> "row", v |-> 0]
Obj == [t |-> "obj", v |-> 0]

ClsElems == {Num(10), Num(25), Obj}
ConfElems == {Num(8766), Obj}
XyElems == {Row, Obj}

\* an attribute of boxes: missing, or a collection whose .tolist() works
\* ("bulk"), or one that only iterates ("elem"), or one that does neither
AccAbsent == [kind |-> "absent", vals |-> <<>>]
AccFail == [kind |-> "fail", vals |-> <<>>]
Accessors(E, L) ==
    {AccAbsent, AccFail} \cup
    [kind : {"bulk", "elem"}, vals : {s \in SeqsUpTo(E, L) : Len(s) = L}]

\* a result item: r.boxes missing, None, or a collection of L detections
\* whose len() works (len = L) or raises (len = -1)
NoBoxes(h) == [has |-> h, len |-> 0, cls |-> AccAbsent, conf |-> AccAbsent,
               xyxy |-> AccAbsent]
BoxesOf(L) ==
    [has : {"obj"}, len : {-1, L}, cls : Accessors(ClsElems, L),
     conf : Accessors(ConfElems, L), xyxy : Accessors(XyElems, L)]

PrintItems == {NoBoxes("absent"), NoBoxes("none")}
              \cup UNION {BoxesOf(L) : L \in 0..MaxDet}

Bulk(E, L) == [kind |-> "bulk", vals |-> [k \in 1..L |-> E]]
RunItems ==
    LET L == MaxDet
    IN  {NoBoxes("absent"), NoBoxes("none")} \cup
        {[has |-> "obj", len |-> n, cls |-> Bulk(Num(10), L),
          conf |-> Bulk(Num(8766), L), xyxy |-> x] :
            n \in {-1, L}, x \in {AccAbsent, Bulk(Row, L)}}

Names == [id \in {0, 1} |-> IF id = 0 THEN "stop" ELSE "yield"]

-----------------------------------------------------------------------------
(* The streaming printer, lines 103-175 *)

\* int(x) of a number given in tenths
PyInt(v) == v \div 10

\* f"{conf:.3f}" of a float given in ten-thousandths: thousandths, rounded
Format3(v) == (v + 5) \div 10

AllNum(vals) == \A k \in 1..Len(vals) : vals[k].t = "num"

ClsValsBulkOnly(acc) ==
    CASE acc.kind = "bulk" -> Some(acc.vals)
      [] OTHER -> None

\* lines 120-127: boxes.cls.tolist(), else [int(x) for x in boxes.cls],
\* else None
ClsVals(acc) ==
    CASE acc.kind = "bulk" -> Some(acc.vals)
      [] acc.kind = "elem" /\ AllNum(acc.vals) ->
            Some([k \in 1..Len(acc.vals) |->
                    [t |-> "int", v |-> PyInt(acc.vals[k].v)]])
      [] OTHER -> None

\* lines 128-135: boxes.conf.tolist(), else [float(x) for x in boxes.conf],
\* else None
ConfVals(acc) ==
    CASE acc.kind = "bulk" -> Some(acc.vals)
      [] acc.kind = "elem" /\ AllNum(acc.vals) ->
            Some([k \in 1..Len(acc.vals) |->
                    [t |-> "float", v |-> acc.vals[k].v]])
      [] OTHER -> None

\* lines 139-147: boxes.xyxy.tolist(), else the rows converted one by one,
\* else None
XyxyVals(acc) ==
    CASE acc.kind = "bulk" -> Some(acc.vals)
      [] acc.kind = "elem" /\ (\A k \in 1..Len(acc.vals) : acc.vals[k] = Row) ->
            Some(acc.vals)
      [] OTHER -> None

NoVal == [t |-> "none", v |-> 0]

\* lines 153-157: int(cls_vals[idx]), the element itself when int() raises
ClsId(e) ==
    CASE e.t = "num" -> [t |-> "int", v |-> PyInt(e.v)]
      [] e.t = "int" -> e
      [] OTHER -> e

\* lines 158-162: float(conf_vals[idx]), the element itself when float() raises
ConfOf(e) ==
    CASE e.t \in {"num", "float"} -> [t |-> "float", v |-> e.v]
      [] OTHER -> e

\* line 168
ClsName(cls_id) ==
    CASE cls_id.t = "none" -> "?"
      [] cls_id.t = "int" ->
            IF cls_id.v \in DOMAIN Names THEN Names[cls_id.v]
            ELSE ToString(cls_id.v)
      [] OTHER -> "obj"

Header(n) == [kind |-> "header", idx |-> n, cls_name |-> "", cls_id |-> NoVal,
              conf |-> [fmt |-> "raw", t |-> "none", v |-> 0], bbox |-> None]
NoDetections == [kind |-> "nodet", idx |-> 0, cls_name |-> "", cls_id |-> NoVal,
                 conf |-> [fmt |-> "raw", t |-> "none", v |-> 0], bbox |-> None]
RawBoxes == [kind |-> "raw", idx |-> 0, cls_name |-> "", cls_id |-> NoVal,
             conf |-> [fmt |-> "raw", t |-> "none", v |-> 0], bbox |-> None]

\* the confidence as line 170 (with a bbox) and line 172 (without) show it
ShownConf(conf, hasBox) ==
    IF hasBox THEN [fmt |-> "f3", t |-> conf.t, v |-> Format3(conf.v)]
    ELSE [fmt |-> "raw", t |-> conf.t, v |-> conf.v]

\* lines 150-172 for one idx (0-based): the line printed, or raised = TRUE
\* when an exception leaves the loop for the handler of line 173
DetailLine(cls_vals, conf_vals, xyxy_vals, idx) ==
    LET clsRaises == cls_vals # None /\ idx + 1 > Len(cls_vals[1])
        confRaises == conf_vals # None /\ idx + 1 > Len(conf_vals[1])
        cls_id == IF cls_vals = None \/ clsRaises THEN NoVal
                  ELSE ClsId(cls_vals[1][idx + 1])
        conf == IF conf_vals = None \/ confRaises THEN NoVal
                ELSE ConfOf(conf_vals[1][idx + 1])
        xy == IF xyxy_vals = None \/ idx + 1 > Len(xyxy_vals[1]) THEN None
              ELSE Some(xyxy_vals[1][idx + 1])
        fmtRaises == xy # None /\ conf.t # "float"
    IN  [raised |-> clsRaises \/ confRaises \/ fmtRaises,
         line |-> [kind |-> "detail", idx |-> idx, cls_name |-> ClsName(cls_id),
                   cls_id |-> cls_id,
                   conf |-> IF fmtRaises THEN ShownConf(conf, FALSE)
                            ELSE ShownConf(conf, xy # None),
                   bbox |-> xy]]

RECURSIVE DetailLines(_, _, _)
\* lines 149-172: the loop over range(n) from idx on; raised = TRUE when an
\* exception ended it, lines = what it printed until then
DetailLines(boxes, n, idx) ==
    IF idx >= n THEN [lines |-> <<>>, raised |-> FALSE]
    ELSE LET o == DetailLine(ClsVals(boxes.cls), ConfVals(boxes.conf),
                             XyxyVals(boxes.xyxy), idx)
             rest == DetailLines(boxes, n, idx + 1)
         IN  IF o.raised THEN [lines |-> <<>>, raised |-> TRUE]
             ELSE [lines |-> <<o.line>> \o rest.lines, raised |-> rest.raised]

TryDetailsNoHandler(boxes, n) ==
    LET o == DetailLines(boxes, n, 0)
    IN  [lines |-> o.lines, uncaught |-> o.raised]

\* lines 117-175: the try block and its handler, which prints repr(boxes);
\* uncaught = TRUE when an exception leaves the block
TryDetails(boxes, n) ==
    LET o == DetailLines(boxes, n, 0)
    IN  [lines |-> IF o.raised THEN Append(o.lines, RawBoxes) ELSE o.lines,
         uncaught |-> FALSE]

\* lines 109-112
LenOrZero(boxes) == IF boxes.len < 0 THEN 0 ELSE boxes.len

\* lines 104-175: everything printed for item r, the frame of index n
FrameLines(r, n) ==
    LET body == IF r.has # "obj" THEN [lines |-> <<NoDetections>>, uncaught |-> FALSE]
                ELSE IF LenOrZero(r) = 0
                     THEN [lines |-> <<NoDetections>>, uncaught |-> FALSE]
                ELSE TryDetails(r, LenOrZero(r))
    IN  [lines |-> <<Header(n)>> \o body.lines, uncaught |-> body.uncaught]

-----------------------------------------------------------------------------
(* The summary, lines 200-216 *)

ItemCountPrimaryOnly(r) ==
    CASE r.has # "obj" -> 0
      [] r.len >= 0 -> r.len
      [] OTHER -> 0

\* lines 204-212: what one item adds to total
ItemCount(r) ==
    CASE r.has # "obj" -> 0
      [] r.len >= 0 -> r.len
      [] r.xyxy.kind \in {"bulk", "elem"} -> Len(r.xyxy.vals)
      [] OTHER -> 0

RECURSIVE SumCounts(_)
SumCounts(items) ==
    IF items = <<>> THEN 0
    ELSE ItemCount(Head(items)) + SumCounts(Tail(items))

NoSummary == [kind |-> "none", n |-> 0, total |-> 0]
GenericSummary == [kind |-> "generic", n |-> 0, total |-> 0]

\* the variable results: not yet assigned, None, a list, or an object
\* without len()
Unset == [kind |-> "unset", items |-> <<>>]
NoneResults == [kind |-> "none", items |-> <<>>]
Opaque == [kind |-> "opaque", items |-> <<>>]
ListOf(items) == [kind |-> "list", items |-> items]

SummaryOf(res) ==
    IF res.kind = "list"
    THEN [kind |-> "counts", n |-> Len(res.items), total |-> SumCounts(res.items)]
    ELSE GenericSummary

-----------------------------------------------------------------------------
(* main(), lines 31-216 *)

\* the state at line 34, parse_args() having returned
InitWith(Sources, Devices, RunNames, Flags, Streams, Prints, Exists) ==
    /\ args \in [model : {"weights.pt"}, source : Sources,
                 imgsz : {DefaultImgsz}, conf : {DefaultConfPct},
                 device : Devices, save : Flags, show : Flags,
                 save_txt : Flags, stream : Streams, print_results : Prints,
                 name : RunNames]
    /\ modelExists \in Exists
    /\ pc = "check_model"
    /\ src = StrSource(<<>>)
    /\ imported = FALSE
    /\ model = [loaded |-> FALSE, to_calls |-> <<>>]
    /\ predict_kwargs = [source |-> StrSource(<<>>)]
    /\ predict_kwargs_stream = [source |-> StrSource(<<>>)]
    /\ calls = <<>>
    /\ results = Unset
    /\ i = 0
    /\ printed_count = 0
    /\ cur = NoBoxes("absent")
    /\ frameOut = <<>>
    /\ headers = 0
    /\ msgs = <<>>
    /\ finishedN = -1
    /\ summary = NoSummary
    /\ exitCode = -1

\* sys.exit(code) after printing message
Exit(code, message) ==
    /\ pc' = "exited"
    /\ exitCode' = code
    /\ msgs' = Append(msgs, message)

CheckModelNoExit ==
    /\ pc = "check_model"
    /\ pc' = "normalize"
    /\ UNCHANGED <<args, modelExists, src, imported, model, predict_kwargs,
                   predict_kwargs_stream, calls, results, i, printed_count,
                   cur, frameOut, headers, msgs, finishedN, summary, exitCode>>

\* lines 34-37
CheckModel ==
    /\ pc = "check_model"
    /\ IF modelExists
       THEN pc' = "normalize" /\ UNCHANGED <<exitCode, msgs>>
       ELSE Exit(2, "ERROR: model file not found")
    /\ UNCHANGED <<args, modelExists, src, imported, model, predict_kwargs,
                   predict_kwargs_stream, calls, results, i, printed_count,
                   cur, frameOut, headers, finishedN, summary>>

\* lines 40-45
NormalizeSource ==
    /\ pc = "normalize"
    /\ src' = Normalize(args.source)
    /\ pc' = "import"
    /\ UNCHANGED <<args, modelExists, imported, model, predict_kwargs,
                   predict_kwargs_stream, calls, results, i, printed_count,
                   cur, frameOut, headers, msgs, finishedN, summary, exitCode>>

\* lines 47-52
ImportBackend ==
    /\ pc = "import"
    /\ \E ok \in BOOLEAN :
          IF ok
          THEN imported' = TRUE /\ pc' = "load" /\ UNCHANGED <<exitCode, msgs>>
          ELSE UNCHANGED imported /\ Exit(3, "Failed to import ultralytics")
    /\ UNCHANGED <<args, modelExists, src, model, predict_kwargs,
                   predict_kwargs_stream, calls, results, i, printed_count,
                   cur, frameOut, headers, finishedN, summary>>

\* lines 54-58
LoadModel ==
    /\ pc = "load"
    /\ \E ok \in BOOLEAN :
          IF ok
          THEN /\ model' = [model EXCEPT !.loaded = TRUE]
               /\ pc' = "build_kwargs"
               /\ UNCHANGED <<exitCode, msgs>>
          ELSE UNCHANGED model /\ Exit(4, "Failed to load model")
    /\ UNCHANGED <<args, modelExists, src, imported, predict_kwargs,
                   predict_kwargs_stream, calls, results, i, printed_count,
                   cur, frameOut, headers, finishedN, summary>>

\* d with key k removed
Without(d, k) == [x \in (DOMAIN d) \ {k} |-> d[x]]

\* lines 60-74
KwargsOf(a, source) ==
    LET base == [source |-> source, imgsz |-> a.imgsz, conf |-> a.conf,
                 save |-> a.save, save_txt |-> a.save_txt, show |-> a.show]
        named == IF Truthy(a.name) THEN base @@ [name |-> a.name[1]] ELSE base
    IN  IF Truthy(a.device) THEN named @@ [device |-> a.device[1]] ELSE named

\* lines 60-79
BuildKwargs ==
    /\ pc = "build_kwargs"
    /\ predict_kwargs' = KwargsOf(args, src)
    /\ msgs' = Append(msgs, "Running inference with:")
    /\ pc' = "dispatch"
    /\ UNCHANGED <<args, modelExists, src, imported, model,
                   predict_kwargs_stream, calls, results, i, printed_count,
                   cur, frameOut, headers, finishedN, summary, exitCode>>

\* line 82
UseStreamOnlyStreamFlag == args.stream

UseStream == args.stream \/ args.print_results

\* model.to(device): the call is recorded whether it returns or raises
ModelTo(m, device, ok) ==
    [m EXCEPT !.to_calls = Append(@, [device |-> device, ok |-> ok])]

\* lines 84-85 and 92
StreamKwargs(kw) == Without(kw, "device") @@ [stream |-> TRUE]

\* lines 83-92
StreamPrepare ==
    /\ pc = "dispatch"
    /\ UseStream
    /\ predict_kwargs_stream' = StreamKwargs(predict_kwargs)
    /\ IF "device" \in DOMAIN predict_kwargs
       THEN \E ok \in BOOLEAN :
               model' = ModelTo(model, predict_kwargs["device"], ok)
       ELSE UNCHANGED model
    /\ pc' = "stream_predict"
    /\ UNCHANGED <<args, modelExists, src, imported, predict_kwargs, calls,
                   results, i, printed_count, cur, frameOut, headers, msgs,
                   finishedN, summary, exitCode>>

\* a call model.predict(**kw): the bundle and the .to() calls made before it
Call(mode, kw) == [mode |-> mode, kwargs |-> kw, to_calls |-> model.to_calls]

\* lines 94-101
StreamPredict ==
    /\ pc = "stream_predict"
    /\ calls' = Append(calls, Call("stream", predict_kwargs_stream))
    /\ \E ok \in BOOLEAN :
          IF ok
          THEN /\ pc' = "iterate"
               /\ printed_count' = 0
               /\ UNCHANGED <<exitCode, msgs>>
          ELSE /\ Exit(6, "Inference failed (stream)")
               /\ UNCHANGED printed_count
    /\ UNCHANGED <<args, modelExists, src, imported, model, predict_kwargs,
                   predict_kwargs_stream, results, i, cur, frameOut, headers,
                   finishedN, summary>>

\* lines 103-175: what one iteration prints
BodyLines(r, n) ==
    IF args.print_results THEN FrameLines(r, n)
    ELSE [lines |-> <<>>, uncaught |-> FALSE]

\* lines 102-176: results_gen yields an item r and the loop body runs; an
\* exception leaving the body would end the process as in StreamRaise
StreamStep(D) ==
    /\ pc = "iterate"
    /\ i < MaxFrames
    /\ \E r \in D :
          LET body == BodyLines(r, i)
          IN  /\ cur' = r
              /\ frameOut' = body.lines
              /\ IF body.uncaught
                 THEN /\ Exit(1, "Traceback (most recent call last):")
                      /\ UNCHANGED printed_count
                 ELSE /\ printed_count' = printed_count + 1
                      /\ pc' = "frame_done"
                      /\ UNCHANGED <<msgs, exitCode>>
    /\ headers' = IF args.print_results THEN headers + 1 ELSE headers
    /\ i' = i + 1
    /\ UNCHANGED <<args, modelExists, src, imported, model,
                   predict_kwargs, predict_kwargs_stream, calls, results,
                   finishedN, summary>>

\* line 102: control returns to the for statement; r and what the
\* iteration printed are behind
NextFrame ==
    /\ pc = "frame_done"
    /\ pc' = "iterate"
    /\ cur' = NoBoxes("absent")
    /\ frameOut' = <<>>
    /\ UNCHANGED <<args, modelExists, src, imported, model, predict_kwargs,
                   predict_kwargs_stream, calls, results, i, printed_count,
                   headers, msgs, finishedN, summary, exitCode>>

\* line 102: next(results_gen) raises; nothing catches it, the interpreter
\* prints the traceback and exits with status 1
StreamRaise ==
    /\ pc = "iterate"
    /\ Exit(1, "Traceback (most recent call last):")
    /\ UNCHANGED <<args, modelExists, src, imported, model, predict_kwargs,
                   predict_kwargs_stream, calls, results, i, printed_count,
                   cur, frameOut, headers, finishedN, summary>>

\* lines 102 and 178-180: results_gen is exhausted
StreamFinish ==
    /\ pc = "iterate"
    /\ finishedN' = printed_count
    /\ msgs' = Append(msgs, "Finished streaming inference.")
    /\ results' = NoneResults
    /\ pc' = "summarize"
    /\ UNCHANGED <<args, modelExists, src, imported, model, predict_kwargs,
                   predict_kwargs_stream, calls, i, printed_count, cur,
                   frameOut, headers, summary, exitCode>>

\* what model.predict(stream=False) may return: a list of items, or an
\* object without len()
Returned(D) ==
    {Opaque} \cup {ListOf(s) : s \in SeqsUpTo(D, MaxResults)}

\* lines 182-183 and 195-197
OneShotPredict(D) ==
    /\ pc = "dispatch"
    /\ ~UseStream
    /\ calls' = Append(calls, Call("oneshot", predict_kwargs))
    /\ \/ \E res \in Returned(D) :
             /\ results' = res
             /\ pc' = "summarize"
             /\ UNCHANGED <<exitCode, msgs>>
       \/ /\ pc' = "fallback"             \* TypeError
          /\ UNCHANGED <<results, exitCode, msgs>>
       \/ /\ Exit(6, "Inference failed")  \* any other Exception
          /\ UNCHANGED results
    /\ UNCHANGED <<args, modelExists, src, imported, model, predict_kwargs,
                   predict_kwargs_stream, i, printed_count, cur, frameOut,
                   headers, finishedN, summary>>

FallbackKwargsKeepDevice(kw) == kw

\* lines 189-190
FallbackKwargs(kw) == Without(kw, "device")

\* lines 184-194
OneShotFallback(D) ==
    /\ pc = "fallback"
    /\ \E toOk \in BOOLEAN :
        LET applied == IF Truthy(args.device)
                       THEN ModelTo(model, args.device[1], toOk) ELSE model
            toRaised == Truthy(args.device) /\ ~toOk
            kw == FallbackKwargs(predict_kwargs)
        IN  /\ model' = applied
            /\ IF toRaised
               THEN /\ Exit(5, "Inference failed")
                    /\ UNCHANGED <<predict_kwargs, calls, results>>
               ELSE /\ predict_kwargs' = kw
                    /\ calls' = Append(calls,
                                  [mode |-> "oneshot", kwargs |-> kw,
                                   to_calls |-> applied.to_calls])
                    /\ \/ \E res \in Returned(D) :
                             /\ results' = res
                             /\ pc' = "summarize"
                             /\ UNCHANGED <<exitCode, msgs>>
                       \/ /\ Exit(5, "Inference failed")
                          /\ UNCHANGED results
    /\ UNCHANGED <<args, modelExists, src, imported, predict_kwargs_stream,
                   i, printed_count, cur, frameOut, headers, finishedN,
                   summary>>

\* lines 199-216, then main() returns and the process exits with status 0
Summarize ==
    /\ pc = "summarize"
    /\ summary' = SummaryOf(results)
    /\ pc' = "exited"
    /\ exitCode' = 0
    /\ UNCHANGED <<args, modelExists, src, imported, model, predict_kwargs,
                   predict_kwargs_stream, calls, results, i, printed_count,
                   cur, frameOut, headers, msgs, finishedN>>

-----------------------------------------------------------------------------
(* Specifications *)

OptStrings == {None, Some(""), Some("cpu")}
OptNames == {None, Some(""), Some("exp")}

\* every flag combination, a webcam index and a path as sources
Init ==
    InitWith({<<"0">>, <<"a", "/">>}, OptStrings, OptNames, BOOLEAN, BOOLEAN,
             BOOLEAN, BOOLEAN)

Next ==
    \/ CheckModel
    \/ NormalizeSource
    \/ ImportBackend
    \/ LoadModel
    \/ BuildKwargs
    \/ StreamPrepare
    \/ StreamPredict
    \/ StreamStep(RunItems)
    \/ NextFrame
    \/ StreamRaise
    \/ StreamFinish
    \/ OneShotPredict(RunItems)
    \/ OneShotFallback(RunItems)
    \/ Summarize

Spec == Init /\ [][Next]_vars

\* every source string up to MaxSrcLen characters, in both modes
InitNorm ==
    InitWith(SeqsUpTo(Chars, MaxSrcLen), {None}, {None}, {FALSE}, BOOLEAN,
             {FALSE}, {TRUE})

NormItems == {NoBoxes("absent")}

NextNorm ==
    \/ CheckModel
    \/ NormalizeSource
    \/ ImportBackend
    \/ LoadModel
    \/ BuildKwargs
    \/ StreamPrepare
    \/ StreamPredict
    \/ StreamStep(NormItems)
    \/ NextFrame
    \/ StreamRaise
    \/ StreamFinish
    \/ OneShotPredict(NormItems)
    \/ OneShotFallback(NormItems)
    \/ Summarize

SpecNorm == InitNorm /\ [][NextNorm]_vars

\* --print runs over every shape of result item
InitPrint ==
    InitWith({<<"a", "/">>}, {None}, {None}, {FALSE}, BOOLEAN, {TRUE}, {TRUE})

NextPrint ==
    \/ CheckModel
    \/ NormalizeSource
    \/ ImportBackend
    \/ LoadModel
    \/ BuildKwargs
    \/ StreamPrepare
    \/ StreamPredict
    \/ StreamStep(PrintItems)
    \/ NextFrame
    \/ StreamRaise
    \/ StreamFinish
    \/ Summarize

SpecPrint == InitPrint /\ [][NextPrint]_vars

-----------------------------------------------------------------------------
(* Properties *)

InStreamMode == Len(calls) > 0 /\ calls[1].mode = "stream"
InOneShotMode == Len(calls) > 0 /\ calls[1].mode = "oneshot"

\* a source string made of decimal digits only, and the number it denotes
IsDigits(s) == Len(s) > 0 /\ \A k \in 1..Len(s) : s[k] \in DecimalChars

RECURSIVE Pow10(_)
Pow10(n) == IF n = 0 THEN 1 ELSE 10 * Pow10(n - 1)

RECURSIVE PlaceSum(_, _)
PlaceSum(s, k) ==
    IF k > Len(s) THEN 0
    ELSE DigitVal(s[k]) * Pow10(Len(s) - k) + PlaceSum(s, k + 1)

\* C1: every call of predict receives, as source, the integer a digit-only
\* --source string denotes, and any other --source string unchanged.
C1_SourceNormalization ==
    \A k \in 1..Len(calls) :
        LET given == calls[k].kwargs.source
        IN  IF IsDigits(args.source)
            THEN /\ given.kind = "int"
                 /\ given.ival = PlaceSum(args.source, 1)
            ELSE /\ given.kind = "str"
                 /\ given.sval = args.source

\* "019" reaches predict as the integer 19
C1_Witness ==
    /\ Len(calls) > 0
    /\ args.source = <<"0", "1", "9">>
    /\ calls[1].kwargs.source = IntSource(19)

\* C2: when the model path does not exist the run ends with exit code 2
\* and never imports the backend, loads the model or calls predict,
\* whatever the flags and whether or not the backend is available.
C2_MissingModelExits2 ==
    ~modelExists =>
        /\ pc \in {"check_model", "exited"}
        /\ pc = "exited" => exitCode = 2
        /\ ~imported
        /\ ~model.loaded
        /\ model.to_calls = <<>>
        /\ calls = <<>>

C2_Witness ==
    /\ ~modelExists
    /\ pc = "exited"
    /\ exitCode = 2
    /\ args.print_results
    /\ Truthy(args.device)

\* the bundle predict is expected to receive, device and stream aside
C3_CommonKeys ==
    {"source", "imgsz", "conf", "save", "save_txt", "show"}
    \cup (IF Truthy(args.name) THEN {"name"} ELSE {})

C3_CommonValues(kw) ==
    /\ kw.source = src
    /\ kw.imgsz = args.imgsz
    /\ kw.conf = args.conf
    /\ kw.save = args.save
    /\ kw.save_txt = args.save_txt
    /\ kw.show = args.show
    /\ Truthy(args.name) => kw.name = args.name[1]

\* C3: the first predict call is one-shot exactly when neither --stream nor
\* --print is set and streaming (stream=True) exactly when one of them is;
\* a streaming call never carries a device key, a device given (non-empty,
\* as line 72 tests it) has been applied to the model before the call, and
\* every other key is passed as in one-shot mode.
C3_ModeSelection ==
    Len(calls) > 0 =>
        LET c == calls[1]
        IN  /\ c.mode = "oneshot" <=> (~args.stream /\ ~args.print_results)
            /\ c.mode = "stream" <=> (args.stream \/ args.print_results)
            /\ C3_CommonValues(c.kwargs)
            /\ c.mode = "stream" =>
                  /\ DOMAIN c.kwargs = C3_CommonKeys \cup {"stream"}
                  /\ c.kwargs.stream = TRUE
                  /\ Truthy(args.device) =>
                        /\ Len(c.to_calls) = 1
                        /\ c.to_calls[1].device = args.device[1]
                  /\ ~Truthy(args.device) => c.to_calls = <<>>
            /\ c.mode = "oneshot" =>
                  /\ DOMAIN c.kwargs =
                        C3_CommonKeys \cup
                        (IF Truthy(args.device) THEN {"device"} ELSE {})
                  /\ Truthy(args.device) => c.kwargs.device = args.device[1]
                  /\ c.to_calls = <<>>

\* --print alone with --device cpu: streaming call, model.to("cpu") raised
C3_Witness ==
    /\ InStreamMode
    /\ ~args.stream
    /\ args.print_results
    /\ args.device = Some("cpu")
    /\ Truthy(args.name)
    /\ calls[1].to_calls = <<[device |-> "cpu", ok |-> FALSE]>>

\* C4: in streaming mode every failure of the inference, in the predict
\* call or while an item is pulled, prints "Inference failed (stream)" and
\* exits with code 6; every run ends with a code in {0, 2, 3, 4, 5, 6}.
C4_StreamFailureExits6 ==
    pc = "exited" =>
        /\ exitCode \in {0, 2, 3, 4, 5, 6}
        /\ (InStreamMode /\ exitCode # 0) =>
              /\ exitCode = 6
              /\ msgs[Len(msgs)] = "Inference failed (stream)"

\* C5 as stated: after a type error in the first one-shot call predict is
\* always called a second time.
C5_AlwaysRetried ==
    [][pc = "fallback" => Len(calls') = 2]_vars

\* C5: after a type error in the first one-shot call, the device (when one
\* was given) is applied to the model; if that raises, the run exits with
\* code 5 without a retry; otherwise predict is retried exactly once with
\* the device key removed, and exits with code 5 if the retry fails.  Any
\* other error of the first call exits with code 6 without a retry.
\* predict is never called more than twice.
C5_OneShotFallback ==
    /\ [][pc = "fallback" =>
            LET toRaised == /\ model'.to_calls # <<>>
                            /\ ~model'.to_calls[1].ok
            IN  /\ Truthy(args.device) =>
                      /\ Len(model'.to_calls) = 1
                      /\ model'.to_calls[1].device = args.device[1]
                /\ ~Truthy(args.device) => model'.to_calls = <<>>
                /\ IF toRaised
                   THEN Len(calls') = 1 /\ exitCode' = 5
                   ELSE /\ Len(calls') = 2
                        /\ calls'[2].mode = "oneshot"
                        /\ "device" \notin DOMAIN calls'[2].kwargs
                        /\ calls'[2].kwargs =
                              [k \in (DOMAIN calls[1].kwargs) \ {"device"} |->
                                  calls[1].kwargs[k]]
                        /\ calls'[2].to_calls = model'.to_calls
                        /\ exitCode' \in {-1, 5}
                        /\ exitCode' = -1 => pc' = "summarize"]_vars
    /\ [](Len(calls) <= 2)
    /\ []((InOneShotMode /\ exitCode = 6) => Len(calls) = 1)
    /\ [](exitCode = 5 => InOneShotMode)

\* the retry ran with the device applied to the model, and failed
C5_Witness ==
    /\ Len(calls) = 2
    /\ exitCode = 5
    /\ "device" \in DOMAIN calls[1].kwargs
    /\ calls[2].to_calls = <<[device |-> "cpu", ok |-> TRUE]>>

C9_Contribution(r) ==
    IF r.has = "obj" /\ r.len >= 0 THEN r.len
    ELSE IF r.has = "obj" /\ r.xyxy.kind \in {"bulk", "elem"}
         THEN Len(r.xyxy.vals)
    ELSE 0

RECURSIVE C9_Total(_, _)
C9_Total(items, k) ==
    IF k = 0 THEN 0 ELSE C9_Contribution(items[k]) + C9_Total(items, k - 1)

\* C9 as stated: in either mode a completed run over m items reports m
\* sources.
C9_SummaryInEitherMode ==
    (pc = "exited" /\ exitCode = 0 /\ results.kind # "opaque") =>
        /\ summary.kind = "counts"
        /\ InStreamMode => summary.n = i
        /\ InOneShotMode => summary.n = Len(results.items)

\* C9: a completed one-shot run over a list of m items reports m sources
\* and the sum of the items' contributions; a completed streaming run has
\* kept no results and prints the generic completion message; the generic
\* message is printed only when summarization fails (results is no list).
C9_Summary ==
    (pc = "exited" /\ exitCode = 0) =>
        /\ InOneShotMode /\ results.kind = "list" =>
              /\ summary.kind = "counts"
              /\ summary.n = Len(results.items)
              /\ summary.total = C9_Total(results.items, Len(results.items))
        /\ InStreamMode => results.kind = "none"
        /\ results.kind # "list" <=> summary.kind = "generic"

\* two items, one counted by len(), one only by its coordinate list
C9_Witness ==
    /\ pc = "exited"
    /\ exitCode = 0
    /\ InOneShotMode
    /\ results.kind = "list"
    /\ Len(results.items) = 2
    /\ results.items[1].len = MaxDet
    /\ results.items[2].len = -1
    /\ results.items[2].xyxy.kind = "bulk"
    /\ summary.total = 2 * MaxDet

-----------------------------------------------------------------------------
(* Properties of the streaming printer *)

Printed == pc = "frame_done" /\ args.print_results

\* bulk conversion raises, element-wise conversion works
ElementWise(acc) == acc.kind = "elem" /\ AllNum(acc.vals)

\* C6: for an item of k > 0 detections whose class ids and confidences
\* convert element-wise only, the printer prints the header and exactly k
\* detail lines, for the indices 0..k-1 in order, each with the class id
\* and the confidence of its index, with or without coordinates.
C6_ElementWiseLines ==
    (/\ Printed
     /\ cur.has = "obj"
     /\ cur.len > 0
     /\ ElementWise(cur.cls)
     /\ ElementWise(cur.conf)) =>
        /\ Len(frameOut) = cur.len + 1
        /\ \A idx \in 0..(cur.len - 1) :
              LET line == frameOut[idx + 2]
                  c == cur.cls.vals[idx + 1].v
                  p == cur.conf.vals[idx + 1].v
              IN  /\ line.kind = "detail"
                  /\ line.idx = idx
                  /\ line.cls_id.t = "int"
                  /\ 10 * line.cls_id.v <= c
                  /\ c < 10 * (line.cls_id.v + 1)
                  /\ line.conf.t = "float"
                  /\ line.conf.fmt = "raw" => line.conf.v = p
                  /\ line.conf.fmt = "f3" =>
                        /\ 10 * line.conf.v - p <= 5
                        /\ p - 10 * line.conf.v <= 5

\* a second frame of MaxDet detections, coordinates available
C6_Witness ==
    /\ Printed
    /\ i = 2
    /\ cur.len = MaxDet
    /\ ElementWise(cur.cls)
    /\ ElementWise(cur.conf)
    /\ cur.xyxy.kind = "bulk"
    /\ frameOut[2].bbox # None
    /\ frameOut[Len(frameOut)].idx = MaxDet - 1

C7_IsDetail(line) == line.kind = "detail"

\* C7: the printer never ends the run because of an item's detection data:
\* for every item it prints the header of the item's index and then
\* "no detections" (boxes missing, of length zero or of unreadable
\* length), or detail lines, or, when formatting fails, the raw
\* representation after the detail lines printed until then; the loop
\* then goes on.  Only a failing pull ends a streaming run with status 1.
C7_PrinterNeverAborts ==
    /\ (pc = "exited" /\ exitCode = 1) => frameOut = <<>>
    /\ Printed =>
          LET n == Len(frameOut)
              empty == cur.has # "obj" \/ cur.len <= 0
          IN  /\ exitCode = -1
              /\ n >= 2
              /\ frameOut[1] = Header(i - 1)
              /\ headers = i
              /\ empty <=> frameOut = <<Header(i - 1), NoDetections>>
              /\ ~empty =>
                    /\ \A k \in 2..(n - 1) :
                          /\ C7_IsDetail(frameOut[k])
                          /\ frameOut[k].idx = k - 2
                    /\ \/ frameOut[n] = RawBoxes
                       \/ /\ C7_IsDetail(frameOut[n])
                          /\ frameOut[n].idx = n - 2
                          /\ n = cur.len + 1

\* second frame: one detail line, then the raw representation
C7_Witness ==
    /\ Printed
    /\ i = 2
    /\ Len(frameOut) = 3
    /\ frameOut[2].kind = "detail"
    /\ frameOut[3] = RawBoxes

\* C10: every detail line shows a numeric confidence with three decimals
\* and any other confidence as it is, with or without coordinates; the
\* class name is the name of the class id, "?" when the id is unresolved.
C10_ConfidenceFormat ==
    Printed =>
        \A k \in 1..Len(frameOut) :
            frameOut[k].kind = "detail" =>
                /\ frameOut[k].conf.t = "float" => frameOut[k].conf.fmt = "f3"
                /\ frameOut[k].conf.t # "float" => frameOut[k].conf.fmt = "raw"
                /\ frameOut[k].cls_id.t = "none" => frameOut[k].cls_name = "?"
                /\ (/\ frameOut[k].cls_id.t = "int"
                    /\ frameOut[k].cls_id.v \in DOMAIN Names) =>
                      frameOut[k].cls_name = Names[frameOut[k].cls_id.v]

=============================================================================
